---- MODULE Spec2Model ----
(***************************************************************************)
(* Conway's Game of Life of src/Game.cpp: the Game object (a width x       *)
(* height grid of ints with a hidden buffer of 5 cells on every side), its *)
(* constructor (clearGrid, setPatternVector, initializePattern), tick()    *)
(* with determineFate(), printWindow() and the play() loop.                *)
(***************************************************************************)
EXTENDS Integers, Sequences, FiniteSets, TLC

ALIVE == 1
DEAD == 0

\* the hard-coded buffer of the constructor
BufferSize == 5

\* the smallest visible grid the constructor's precondition allows
MinWidth == 40
MinHeight == 20

\* ---- bounds of the model ----
\* the largest number of generations play() is run for
MaxGenerations == 30
\* how far from each extreme placement the offsets tried may be
OffsetSpan == 0
\* how many cells larger than the minimum the visible grid may be
ExtraSize == 0

VARIABLES
  pc,            \* position of the caller: "new", "ready", the play() loop, "done"
  args,          \* the arguments the constructor is called with
  error,         \* the exception a call ended with ("none": returned normally)
  width,         \* Game::width  (buffers included)
  height,        \* Game::height (buffers included)
  buffer,        \* Game::buffer
  generations,   \* Game::generations
  grid,          \* Game::grid, grid[col][row]
  patternCells,  \* Game::patternCells
  gen,           \* the loop variable of play()
  screen,        \* the lines the console shows
  renders,       \* number of printWindow() calls so far
  ticks,         \* number of tick() calls so far
  idx,           \* every column index (xs) and row index (ys) used on grid or nextGrid
  lastWrites     \* columns (xs) and rows (ys) of grid written by the last writing call

vars == <<pc, args, error, width, height, buffer, generations, grid,
          patternCells, gen, screen, renders, ticks, idx, lastWrites>>

\* ------------------------------------------------------------------------
\* Cell and the pattern catalog
\* ------------------------------------------------------------------------
Cell(x, y) == [x |-> x, y |-> y]

Oscillator == << Cell(1, 0), Cell(1, 1), Cell(1, 2) >>

Glider == << Cell(0, 2), Cell(1, 0), Cell(1, 2), Cell(2, 1), Cell(2, 2) >>

\* the gun with one coordinate mistyped: Cell(14, 5) as Cell(14, 6)
GliderGun_typo ==
  << Cell(0, 4), Cell(0, 5), Cell(1, 4), Cell(1, 5),
     Cell(10, 4), Cell(10, 5), Cell(10, 6), Cell(11, 3),
     Cell(11, 7), Cell(12, 2), Cell(12, 8), Cell(13, 2),
     Cell(13, 8), Cell(14, 6), Cell(15, 3), Cell(15, 7),
     Cell(16, 4), Cell(16, 5), Cell(16, 6), Cell(17, 5),
     Cell(20, 2), Cell(20, 3), Cell(20, 4), Cell(21, 2),
     Cell(21, 3), Cell(21, 4), Cell(22, 1), Cell(22, 5),
     Cell(24, 0), Cell(24, 1), Cell(24, 5), Cell(24, 6),
     Cell(34, 2), Cell(34, 3), Cell(35, 2), Cell(35, 3) >>

GliderGun ==
  << Cell(0, 4), Cell(0, 5), Cell(1, 4), Cell(1, 5),
     Cell(10, 4), Cell(10, 5), Cell(10, 6), Cell(11, 3),
     Cell(11, 7), Cell(12, 2), Cell(12, 8), Cell(13, 2),
     Cell(13, 8), Cell(14, 5), Cell(15, 3), Cell(15, 7),
     Cell(16, 4), Cell(16, 5), Cell(16, 6), Cell(17, 5),
     Cell(20, 2), Cell(20, 3), Cell(20, 4), Cell(21, 2),
     Cell(21, 3), Cell(21, 4), Cell(22, 1), Cell(22, 5),
     Cell(24, 0), Cell(24, 1), Cell(24, 5), Cell(24, 6),
     Cell(34, 2), Cell(34, 3), Cell(35, 2), Cell(35, 3) >>

\* the keys the switch of setPatternVector has a case for
CatalogKeys == {"o", "g", "u"}

\* the switch with a default case that falls back to the oscillator
basePattern_defaultOscillator(cells, pattern) ==
  CASE pattern = "g" -> Glider
    [] pattern = "u" -> GliderGun
    [] OTHER -> Oscillator

\* the switch: the base cells for a key; the default case leaves
\* patternCells as it was
basePattern(cells, pattern) ==
  CASE pattern = "o" -> Oscillator
    [] pattern = "g" -> Glider
    [] pattern = "u" -> GliderGun
    [] OTHER -> cells

\* the shift without the buffer
shiftCell_noBuffer(c, buf, xOffset, yOffset) ==
  Cell(c.x + xOffset, c.y + yOffset)

\* the shift of one base position
shiftCell(c, buf, xOffset, yOffset) ==
  Cell(c.x + buf + xOffset, c.y + buf + yOffset)

setPatternVector(cells, pattern, xOffset, yOffset, buf) ==
  LET base == basePattern(cells, pattern)
  IN  [cell \in 1..Len(base) |-> shiftCell(base[cell], buf, xOffset, yOffset)]

\* ------------------------------------------------------------------------
\* the grid
\* ------------------------------------------------------------------------
\* a column loop that stops one column early
clearCols_short(w) == 0..(w - 2)

\* the columns and rows clearGrid loops over
clearCols(w) == 0..(w - 1)
clearRows(h) == 0..(h - 1)

\* every cell the loops reach becomes DEAD, the others keep what they held
clearGrid(g, w, h) ==
  [col \in 0..(w - 1) |-> [row \in 0..(h - 1) |->
     IF col \in clearCols(w) /\ row \in clearRows(h) THEN DEAD ELSE g[col][row]]]

\* grid[cur.x][cur.y] = ALIVE for every Cell of patternCells
initializePattern(g, cells, w, h) ==
  [col \in 0..(w - 1) |-> [row \in 0..(h - 1) |->
     IF \E cell \in 1..Len(cells) : cells[cell].x = col /\ cells[cell].y = row
     THEN ALIVE ELSE g[col][row]]]

\* a read of g[x][y]; outside the arrays it yields whatever the memory holds
Get(g, x, y, w, h, junk) ==
  IF x \in 0..(w - 1) /\ y \in 0..(h - 1) THEN g[x][y] ELSE junk

\* determineFate with the neighbour grid[x + 1][y + 1] left out of the sum
determineFate_sevenNeighbours(g, x, y, w, h, junk) ==
  LET totalLiveNeighbors ==
        Get(g, x - 1, y - 1, w, h, junk) + Get(g, x - 1, y, w, h, junk) +
        Get(g, x - 1, y + 1, w, h, junk) + Get(g, x, y - 1, w, h, junk) +
        Get(g, x, y + 1, w, h, junk) + Get(g, x + 1, y - 1, w, h, junk) +
        Get(g, x + 1, y, w, h, junk)
  IN  IF totalLiveNeighbors < 2 \/ totalLiveNeighbors > 3 THEN DEAD
      ELSE IF totalLiveNeighbors = 2 THEN Get(g, x, y, w, h, junk)
      ELSE ALIVE

\* the value determineFate writes to nextGrid[x][y]
determineFate(g, x, y, w, h, junk) ==
  LET totalLiveNeighbors ==
        Get(g, x - 1, y - 1, w, h, junk) + Get(g, x - 1, y, w, h, junk) +
        Get(g, x - 1, y + 1, w, h, junk) + Get(g, x, y - 1, w, h, junk) +
        Get(g, x, y + 1, w, h, junk) + Get(g, x + 1, y - 1, w, h, junk) +
        Get(g, x + 1, y, w, h, junk) + Get(g, x + 1, y + 1, w, h, junk)
  IN  IF totalLiveNeighbors < 2 \/ totalLiveNeighbors > 3 THEN DEAD
      ELSE IF totalLiveNeighbors = 2 THEN Get(g, x, y, w, h, junk)
      ELSE ALIVE

\* the indices determineFate uses for a cell at coordinate v
neighbourIndices(v) == {v - 1, v, v + 1}

\* loops of tick that run over the edges too
tickXs_withEdges(w) == 0..(w - 1)
tickYs_withEdges(h) == 0..(h - 1)

\* the loop ranges of tick: every cell not on an edge
tickXs(w) == 1..(w - 2)
tickYs(h) == 1..(h - 2)

\* tick whose copy loop goes the wrong way, nextGrid[x][y] = grid[x][y]
tick_copyReversed(g, w, h, junk) == g

tick(g, w, h, junk) ==
  LET nextGrid ==
        [col \in 0..(w - 1) |-> [row \in 0..(h - 1) |->
           IF col \in tickXs(w) /\ row \in tickYs(h)
           THEN determineFate(g, col, row, w, h, junk) ELSE DEAD]]
  IN  [col \in 0..(w - 1) |-> [row \in 0..(h - 1) |->
         IF col \in tickXs(w) /\ row \in tickYs(h)
         THEN nextGrid[col][row] ELSE g[col][row]]]

\* the indices one tick uses: nextGrid is allocated and filled whole, every
\* loop cell and its neighbours are read, every loop cell is written
tickIndices(w, h) ==
  [xs |-> (0..(w - 1)) \cup UNION {neighbourIndices(x) : x \in tickXs(w)},
   ys |-> (0..(h - 1)) \cup UNION {neighbourIndices(y) : y \in tickYs(h)}]

\* the rows and columns printWindow prints
windowRows(h, buf) == buf..(h - buf - 1)
windowCols(w, buf) == buf..(w - buf - 1)

\* the lines printWindow writes to the console
printWindow(g, w, h, buf) ==
  [r \in 1..Cardinality(windowRows(h, buf)) |->
     [c \in 1..Cardinality(windowCols(w, buf)) |->
        IF g[buf + c - 1][buf + r - 1] = ALIVE THEN "X" ELSE "."]]

\* a loop that runs once more
loopCondition_inclusive(g, n) == g <= n

\* the condition of the for loop of play
loopCondition(g, n) == g < n

\* ------------------------------------------------------------------------
\* the calls the constructor's precondition allows, and a key outside the
\* catalog
\* ------------------------------------------------------------------------
Min(S) == CHOOSE m \in S : \A n \in S : m <= n
Max(S) == CHOOSE m \in S : \A n \in S : n <= m

UnknownKey == "x"
PatternKeys == CatalogKeys \cup {UnknownKey}

\* the offsets tried: the origin and those next to the two extremes
Near(lo, hi) ==
  {v \in lo..hi : v = 0 \/ v <= lo + OffsetSpan \/ v >= hi - OffsetSpan}

\* the offsets that keep every cell of the pattern in the visible window
XOffsets(pattern, visW) ==
  LET base == basePattern(<< >>, pattern)
      dxs == {base[i].x : i \in 1..Len(base)}
  IN  IF dxs = {} THEN 0..OffsetSpan
      ELSE Near(0 - Min(dxs), visW - 1 - Max(dxs))

YOffsets(pattern, visH) ==
  LET base == basePattern(<< >>, pattern)
      dys == {base[i].y : i \in 1..Len(base)}
  IN  IF dys = {} THEN 0..OffsetSpan
      ELSE Near(0 - Min(dys), visH - 1 - Max(dys))

GenChoices == {1, 2, MaxGenerations}

\* what a fresh new int[] may hold
GarbageValues == {DEAD, ALIVE, 2}

Calls ==
  UNION { UNION { UNION {
    { [width |-> vw, height |-> vh, pattern |-> p,
       xOffset |-> xo, yOffset |-> yo, generations |-> n] :
         xo \in XOffsets(p, vw), yo \in YOffsets(p, vh), n \in GenChoices }
    : p \in PatternKeys }
    : vw \in MinWidth..(MinWidth + ExtraSize) }
    : vh \in MinHeight..(MinHeight + ExtraSize) }

\* ------------------------------------------------------------------------
\* the state machine
\* ------------------------------------------------------------------------
Init ==
  /\ pc = "new"
  /\ args \in Calls
  /\ error = "none"
  /\ width = 0
  /\ height = 0
  /\ buffer = 0
  /\ generations = 0
  /\ grid = << >>
  /\ patternCells = << >>
  /\ gen = 0
  /\ screen = << >>
  /\ renders = 0
  /\ ticks = 0
  /\ idx = [xs |-> {}, ys |-> {}]
  /\ lastWrites = [xs |-> {}, ys |-> {}]

\* Game::Game
Construct ==
  /\ pc = "new"
  /\ \E garbage \in GarbageValues :
       LET buf == BufferSize
           w == args.width + 2 * buf
           h == args.height + 2 * buf
           fresh == [col \in 0..(w - 1) |-> [row \in 0..(h - 1) |-> garbage]]
           cells == setPatternVector(patternCells, args.pattern,
                                     args.xOffset, args.yOffset, buf)
       IN  /\ buffer' = buf
           /\ width' = w
           /\ height' = h
           /\ generations' = args.generations
           /\ patternCells' = cells
           /\ grid' = initializePattern(clearGrid(fresh, w, h), cells, w, h)
           /\ idx' = [xs |-> idx.xs \cup clearCols(w)
                               \cup {cells[i].x : i \in 1..Len(cells)},
                      ys |-> idx.ys \cup clearRows(h)
                               \cup {cells[i].y : i \in 1..Len(cells)}]
           /\ lastWrites' = [xs |-> clearCols(w)
                                      \cup {cells[i].x : i \in 1..Len(cells)},
                             ys |-> clearRows(h)
                                      \cup {cells[i].y : i \in 1..Len(cells)}]
  /\ error' = "none"
  /\ pc' = "ready"
  /\ UNCHANGED <<args, gen, screen, renders, ticks>>

\* play(): the flush and clear before the loop
PlayBegin ==
  /\ pc = "ready"
  /\ screen' = << >>
  /\ gen' = 0
  /\ pc' = "loop"
  /\ UNCHANGED <<args, error, width, height, buffer, generations, grid,
                 patternCells, renders, ticks, idx, lastWrites>>

\* play(): the loop is entered, the window is printed and the pause begins
PlayPrint ==
  /\ pc = "loop"
  /\ loopCondition(gen, generations)
  /\ screen' = screen \o printWindow(grid, width, height, buffer)
  /\ renders' = renders + 1
  /\ idx' = [xs |-> idx.xs \cup windowCols(width, buffer),
             ys |-> idx.ys \cup windowRows(height, buffer)]
  /\ pc' = "shown"
  /\ UNCHANGED <<args, error, width, height, buffer, generations, grid,
                 patternCells, gen, ticks, lastWrites>>

\* play(): the console is cleared for the next generation
PlayClear ==
  /\ pc = "shown"
  /\ screen' = << >>
  /\ pc' = "cleared"
  /\ UNCHANGED <<args, error, width, height, buffer, generations, grid,
                 patternCells, gen, renders, ticks, idx, lastWrites>>

\* play(): tick() and ++gen
PlayTick ==
  /\ pc = "cleared"
  /\ LET ti == tickIndices(width, height)
         inBounds == /\ ti.xs \subseteq 0..(width - 1)
                     /\ ti.ys \subseteq 0..(height - 1)
     IN  /\ \E junk \in (IF inBounds THEN {DEAD} ELSE {DEAD, ALIVE}) :
               grid' = tick(grid, width, height, junk)
         /\ idx' = [xs |-> idx.xs \cup ti.xs, ys |-> idx.ys \cup ti.ys]
  /\ lastWrites' = [xs |-> tickXs(width), ys |-> tickYs(height)]
  /\ ticks' = ticks + 1
  /\ gen' = gen + 1
  /\ pc' = "loop"
  /\ UNCHANGED <<args, error, width, height, buffer, generations,
                 patternCells, screen, renders>>

\* play(): the loop ends and play returns
PlayReturn ==
  /\ pc = "loop"
  /\ ~loopCondition(gen, generations)
  /\ pc' = "done"
  /\ UNCHANGED <<args, error, width, height, buffer, generations, grid,
                 patternCells, gen, screen, renders, ticks, idx, lastWrites>>

Next ==
  \/ Construct
  \/ PlayBegin
  \/ PlayPrint
  \/ PlayClear
  \/ PlayTick
  \/ PlayReturn

Spec == Init /\ [][Next]_vars

\* ------------------------------------------------------------------------
\* properties
\* ------------------------------------------------------------------------
Cols == 0..(width - 1)
Rows == 0..(height - 1)

MooreOffsets ==
  {<<-1, -1>>, <<-1, 0>>, <<-1, 1>>, <<0, -1>>,
   <<0, 1>>, <<1, -1>>, <<1, 0>>, <<1, 1>>}

\* number of ALIVE Moore neighbours of (x, y) in g
LiveNeighbours(g, x, y) ==
  Cardinality({d \in MooreOffsets : g[x + d[1]][y + d[2]] = ALIVE})

\* the cells of grid that are ALIVE, as <<x, y>>
AliveCells == {c \in Cols \X Rows : grid[c[1]][c[2]] = ALIVE}

Constructed == pc # "new"

\* C1: a tick makes every interior cell ALIVE exactly when, in the grid
\* before the tick, it had 3 live Moore neighbours, or 2 and was ALIVE itself,
\* and DEAD otherwise; the sums are those of the grid before the tick.
C1_TickAppliesRule ==
  [][ticks' = ticks + 1 =>
       \A x \in 1..(width - 2) : \A y \in 1..(height - 2) :
         LET n == LiveNeighbours(grid, x, y)
         IN  grid'[x][y] = IF n = 3 \/ (n = 2 /\ grid[x][y] = ALIVE)
                           THEN ALIVE ELSE DEAD]_vars

\* the oscillator after its first tick: the middle row is born, the ends died
C1_Witness ==
  /\ args.pattern = "o"
  /\ ticks = 1
  /\ grid[buffer + args.xOffset][buffer + args.yOffset + 1] = ALIVE
  /\ grid[buffer + args.xOffset + 1][buffer + args.yOffset] = DEAD

\* C2: with a catalog pattern placed in the visible region, every cell of the
\* outermost one-cell border is DEAD after construction and after every
\* tick, and a tick writes no border cell.
C2_BorderStaysDead ==
  (Constructed /\ args.pattern \in CatalogKeys) =>
    /\ \A x \in Cols : \A y \in Rows :
         (x = 0 \/ x = width - 1 \/ y = 0 \/ y = height - 1)
           => grid[x][y] = DEAD
    /\ ticks > 0 => /\ 0 \notin lastWrites.xs
                    /\ (width - 1) \notin lastWrites.xs
                    /\ 0 \notin lastWrites.ys
                    /\ (height - 1) \notin lastWrites.ys

\* live cells have drifted right next to the border
C2_Witness ==
  /\ Constructed
  /\ args.pattern \in CatalogKeys
  /\ ticks > 0
  /\ \E y \in Rows : grid[width - 2][y] = ALIVE

\* how many cells (x, y) lies outside the visible region (0: visible)
Outside(x, y) ==
  Max({0, buffer - x, x - (width - buffer - 1),
          buffer - y, y - (height - buffer - 1)})

\* C3 as stated: every cell of the margin is DEAD in every state reached by
\* constructing with a pattern in the visible region and ticking.
C3_MarginAlwaysDead ==
  (Constructed /\ args.pattern \in CatalogKeys) =>
    \A x \in Cols : \A y \in Rows :
      Outside(x, y) >= 1 => grid[x][y] = DEAD

\* C3 amended: the margin is DEAD after construction, and after k ticks
\* every margin cell more than k cells outside the visible region is DEAD.
C3_MarginDeadBeyondReach ==
  (Constructed /\ args.pattern \in CatalogKeys) =>
    \A x \in Cols : \A y \in Rows :
      Outside(x, y) > ticks => grid[x][y] = DEAD

\* a margin cell exactly as far out as the number of ticks is ALIVE
C3_Witness ==
  /\ Constructed
  /\ args.pattern \in CatalogKeys
  /\ ticks >= 1
  /\ \E x \in Cols : \E y \in Rows :
       Outside(x, y) = ticks /\ grid[x][y] = ALIVE

\* C4: with the preconditions met, every index used on grid or nextGrid by
\* the placement and by every tick is inside the arrays.
C4_IndicesInBounds ==
  args.pattern \in CatalogKeys =>
    /\ \A x \in idx.xs : 0 <= x /\ x < width
    /\ \A y \in idx.ys : 0 <= y /\ y < height

\* the glider has run into the margin and ticks go on reading the border
C4_Witness ==
  /\ args.pattern = "g"
  /\ ticks >= 16
  /\ \E c \in AliveCells : Outside(c[1], c[2]) >= 4
  /\ (width - 1) \in idx.xs
  /\ (height - 1) \in idx.ys

C6_RenderThenTick ==
  /\ pc = "loop" => renders = ticks
  /\ pc = "shown" =>
       /\ renders = ticks + 1
       /\ Len(screen) = height - 2 * buffer
       /\ \A r \in 1..Len(screen) :
            /\ Len(screen[r]) = width - 2 * buffer
            /\ \A c \in 1..Len(screen[r]) :
                 screen[r][c] = IF grid[buffer + c - 1][buffer + r - 1] = ALIVE
                                THEN "X" ELSE "."
  /\ pc = "cleared" => renders = ticks + 1
  /\ pc = "done" => renders = generations /\ ticks = generations

C6_Witness ==
  /\ pc = "done"
  /\ generations >= 2
  /\ renders = generations

\* C7: clearing and placing a catalog pattern with offsets (0, 0) leaves
\* ALIVE exactly the cells (buffer + dx, buffer + dy) of the catalog offsets
\* and every other cell DEAD.
C7_PlacementAtOrigin ==
  (Constructed /\ ticks = 0 /\ args.pattern \in CatalogKeys
     /\ args.xOffset = 0 /\ args.yOffset = 0) =>
    LET catalog == CASE args.pattern = "o" -> Oscillator
                     [] args.pattern = "g" -> Glider
                     [] args.pattern = "u" -> GliderGun
    IN  \A x \in Cols : \A y \in Rows :
          grid[x][y] =
            IF \E i \in 1..Len(catalog) :
                 catalog[i].x = x - buffer /\ catalog[i].y = y - buffer
            THEN ALIVE ELSE DEAD

C7_Witness ==
  /\ pc = "ready"
  /\ args.pattern = "u"
  /\ args.xOffset = 0
  /\ args.yOffset = 0
  /\ Cardinality(AliveCells) = 36

\* the grid with only the three cells of the oscillator as placed
OscillatorGrid ==
  [x \in Cols |-> [y \in Rows |->
     IF x = buffer + args.xOffset + 1
          /\ y \in (buffer + args.yOffset)..(buffer + args.yOffset + 2)
     THEN ALIVE ELSE DEAD]]

\* C8: the oscillator placed in the visible region has period 2: after one
\* tick the grid differs from the initial one, after two it equals it.
C8_OscillatorPeriodTwo ==
  (Constructed /\ args.pattern = "o") =>
    /\ ticks = 0 => grid = OscillatorGrid
    /\ ticks = 1 => grid # OscillatorGrid
    /\ ticks = 2 => grid = OscillatorGrid

\* two ticks done on an oscillator placed at the left edge of the window
C8_Witness ==
  /\ args.pattern = "o"
  /\ args.xOffset = -1
  /\ ticks = 2
  /\ Cardinality(AliveCells) = 3

\* the four phases of a glider travelling right and down
GliderPhases ==
  { {<<0, 2>>, <<1, 0>>, <<1, 2>>, <<2, 1>>, <<2, 2>>},
    {<<0, 0>>, <<1, 1>>, <<1, 2>>, <<2, 0>>, <<2, 1>>},
    {<<0, 1>>, <<1, 2>>, <<2, 0>>, <<2, 1>>, <<2, 2>>},
    {<<0, 0>>, <<0, 2>>, <<1, 1>>, <<1, 2>>, <<2, 1>>} }

\* the cells of the glider gun as placed with offsets (0, 0)
GunCells ==
  {<<GliderGun[i].x + buffer, GliderGun[i].y + buffer>> : i \in 1..Len(GliderGun)}

\* C9: the glider gun at offset (0, 0) reproduces itself after 30 ticks and
\* has emitted a glider: the ALIVE cells are the 36 gun cells and exactly 5
\* more, which form a glider.
C9_GunPeriodThirty ==
  (args.pattern = "u" /\ args.xOffset = 0 /\ args.yOffset = 0 /\ ticks = 30) =>
    /\ GunCells \subseteq AliveCells
    /\ Cardinality(AliveCells) = 41
    /\ LET extra == AliveCells \ GunCells
           x0 == Min({c[1] : c \in extra})
           y0 == Min({c[2] : c \in extra})
       IN  {<<c[1] - x0, c[2] - y0>> : c \in extra} \in GliderPhases

C9_Witness ==
  /\ args.pattern = "u"
  /\ args.xOffset = 0
  /\ args.yOffset = 0
  /\ ticks = 30
  /\ Cardinality(GunCells) = 36
  /\ AliveCells # GunCells

\* C10: when play() returns the console still shows the window printed in
\* the last iteration.
C10_FinalGenerationLeftOnScreen ==
  (pc = "done" /\ generations >= 1) =>
    /\ screen # << >>
    /\ Len(screen) = height - 2 * buffer
====
